---------------------------- MODULE Spec2Model ----------------------------
(***************************************************************************)
(* Model of the measurement statistics pipeline:                           *)
(*   FileReader.scan_directory / read_file / parse_metadata                *)
(*   the statistics strategies, CalculatorContext, CalculatorFactory       *)
(*   ResultWriter.write_file_result / write_global_result                  *)
(*   CalculationProcessor.process_calculations                             *)
(*                                                                         *)
(* Text is modelled as a sequence of one-character strings, so that the    *)
(* Python string operations (strip, split, in, replace, f-strings) are     *)
(* computed and not assumed.  A float is modelled as an exact value:       *)
(* a normalised rational, +infinity, or the square root of a rational      *)
(* (the result of a standard deviation).                                   *)
(***************************************************************************)
EXTENDS Integers, Sequences, FiniteSets, TLC

(***************************************************************************)
(* Bounds of the model.                                                    *)
(***************************************************************************)
MaxFiles == 2            \* files listed in the temperature subdirectory
MaxOps == 2              \* length of the operations list
MaxRuns == 2             \* calls of process_calculations on the same input
MaxValues == 2           \* length of the sequence of a direct call of calculate

(***************************************************************************)
(* Python str operations on character sequences.                           *)
(***************************************************************************)
Whitespace == {" ", "\t", "\n", "\r"}

\* s[i..] starts with sub
StartsAt(s, sub, i) ==
    /\ i >= 1
    /\ i + Len(sub) - 1 <= Len(s)
    /\ \A k \in 1..Len(sub) : s[i + k - 1] = sub[k]

\* str.find, 1-based; 0 when sub does not occur
Find(s, sub) ==
    LET hits == {i \in 1..Len(s) : StartsAt(s, sub, i)}
    IN  IF hits = {} THEN 0 ELSE CHOOSE i \in hits : \A j \in hits : i <= j

\* `sub in s`
Contains(s, sub) == Find(s, sub) # 0

\* str.endswith
EndsWith(s, suffix) == StartsAt(s, suffix, Len(s) - Len(suffix) + 1)

\* str.strip()
Strip(s) ==
    LET keep == {i \in 1..Len(s) : s[i] \notin Whitespace}
    IN  IF keep = {} THEN <<>>
        ELSE LET lo == CHOOSE i \in keep : \A j \in keep : i <= j
                 hi == CHOOSE i \in keep : \A j \in keep : i >= j
             IN  SubSeq(s, lo, hi)

\* str.split(sep): a list of at least one part
RECURSIVE Split(_, _)
Split(s, sep) ==
    LET i == Find(s, sep)
    IN  IF i = 0 THEN <<s>>
        ELSE <<SubSeq(s, 1, i - 1)>> \o Split(SubSeq(s, i + Len(sep), Len(s)), sep)

\* str.replace(old, '')
RECURSIVE Remove(_, _)
Remove(s, old) ==
    LET i == Find(s, old)
    IN  IF i = 0 THEN s
        ELSE SubSeq(s, 1, i - 1) \o Remove(SubSeq(s, i + Len(old), Len(s)), old)

\* sep.join(parts)
RECURSIVE Join(_, _)
Join(parts, sep) ==
    IF parts = <<>> THEN <<>>
    ELSE IF Len(parts) = 1 THEN parts[1]
    ELSE parts[1] \o sep \o Join(Tail(parts), sep)

\* the concatenation of a sequence of sequences
RECURSIVE Flatten(_)
Flatten(ss) == IF ss = <<>> THEN <<>> ELSE Head(ss) \o Flatten(Tail(ss))

(***************************************************************************)
(* Numbers.  A float is [kind |-> "rat", n, d] with d > 0 and n/d in       *)
(* lowest terms, [kind |-> "inf"], or [kind |-> "sqrt", n, d]: the square  *)
(* root of the rational n/d, when that root is not itself rational.        *)
(***************************************************************************)
Abs(i) == IF i < 0 THEN -i ELSE i

RECURSIVE GCD(_, _)
GCD(a, b) == IF b = 0 THEN a ELSE GCD(b, a % b)

Rat(n, d) ==
    LET g == GCD(Abs(n), d)
    IN  [kind |-> "rat", n |-> n \div g, d |-> d \div g]

Inf == [kind |-> "inf"]
Zero == Rat(0, 1)

IsInf(x) == x.kind = "inf"

\* x + y on floats of the model (no -inf and no nan among them)
Add(x, y) ==
    IF IsInf(x) \/ IsInf(y) THEN Inf
    ELSE Rat(x.n * y.d + y.n * x.d, x.d * y.d)

\* x - y for finite x, y
Sub(x, y) == Rat(x.n * y.d - y.n * x.d, x.d * y.d)

\* x * y for finite x, y
Mul(x, y) == Rat(x.n * y.n, x.d * y.d)

\* x / k for an integer k > 0
DivInt(x, k) == IF IsInf(x) THEN Inf ELSE Rat(x.n, x.d * k)

\* x < y
Less(x, y) ==
    IF IsInf(x) THEN FALSE
    ELSE IF IsInf(y) THEN TRUE
    ELSE x.n * y.d < y.n * x.d

\* sum(values), starting from the int 0
RECURSIVE Sum(_)
Sum(values) == IF values = <<>> THEN Zero ELSE Add(Head(values), Sum(Tail(values)))

\* floor of the square root of a natural number
RECURSIVE ISqrtIn(_, _, _)
ISqrtIn(m, lo, hi) ==
    IF hi - lo <= 1 THEN lo
    ELSE LET mid == (lo + hi) \div 2
         IN  IF mid * mid <= m THEN ISqrtIn(m, mid, hi) ELSE ISqrtIn(m, lo, mid)

\* 46341 is the least integer whose square exceeds 2^31 - 1
ISqrt(m) == ISqrtIn(m, 0, IF m + 1 < 46341 THEN m + 1 ELSE 46341)

\* math.sqrt of a rational x >= 0
SqrtOf(x) ==
    LET rn == ISqrt(x.n)
        rd == ISqrt(x.d)
    IN  IF rn * rn = x.n /\ rd * rd = x.d THEN Rat(rn, rd)
        ELSE [kind |-> "sqrt", n |-> x.n, d |-> x.d]

Digit == <<"0", "1", "2", "3", "4", "5", "6", "7", "8", "9">>
DigitChars == {Digit[i] : i \in 1..10}
DigitValue(c) == (CHOOSE i \in 1..10 : Digit[i] = c) - 1

\* str(n) for a natural number n
RECURSIVE Digits(_)
Digits(n) == IF n < 10 THEN <<Digit[n + 1]>> ELSE Digits(n \div 10) \o <<Digit[(n % 10) + 1]>>

\* n written with at least w digits, zero-padded on the left
Padded(n, w) ==
    LET ds == Digits(n)
    IN  IF Len(ds) >= w THEN ds ELSE [i \in 1..(w - Len(ds)) |-> "0"] \o ds

RECURSIVE Pow10(_)
Pow10(k) == IF k = 0 THEN 1 ELSE 10 * Pow10(k - 1)

\* int("123") of a non-empty digit string
RECURSIVE IntOf(_)
IntOf(s) == IF s = <<>> THEN 0 ELSE 10 * IntOf(SubSeq(s, 1, Len(s) - 1)) + DigitValue(s[Len(s)])

IsDigits(s) == \A i \in 1..Len(s) : s[i] \in DigitChars

(***************************************************************************)
(* float(text), the `:.2f` format and str(float).                          *)
(***************************************************************************)
ValueError == [kind |-> "ValueError"]
OverflowError == [kind |-> "OverflowError"]
AttributeError == [kind |-> "AttributeError"]
OSError == [kind |-> "OSError"]
NoError == [kind |-> "NoError"]
ErrorKinds == {"ValueError", "OverflowError", "AttributeError", "OSError"}
\* x is an exception and not a value (every value of the model that may be an
\* exception is a record with a kind)
IsError(x) == x.kind \in ErrorKinds

\* float(text) for the decimal grammar [sign] digits [. digits] | [sign] . digits
\* and for "inf"; any other text is a ValueError here (Python also accepts
\* exponents, underscores, "nan" and "-inf": the inputs of the model hold none).
FloatOf(text) ==
    LET t == Strip(text)
        signed == t # <<>> /\ t[1] \in {"+", "-"}
        neg == t # <<>> /\ t[1] = "-"
        body == IF signed THEN Tail(t) ELSE t
        parts == Split(body, <<".">>)
        ip == parts[1]
        fp == IF Len(parts) = 2 THEN parts[2] ELSE <<>>
        mag == IntOf(ip) * Pow10(Len(fp)) + IntOf(fp)
    IN  IF body = <<"i", "n", "f">> /\ ~neg THEN Inf
        ELSE IF /\ Len(parts) <= 2
                /\ IsDigits(ip) /\ IsDigits(fp)
                /\ Len(ip) + Len(fp) > 0
             THEN Rat(IF neg THEN -mag ELSE mag, Pow10(Len(fp)))
        ELSE ValueError

\* p/q rounded to the nearest integer, ties to even (p >= 0, q > 0)
RoundHalfEven(p, q) ==
    LET fl == p \div q
        twice == 2 * (p % q)
    IN  IF twice > q THEN fl + 1
        ELSE IF twice < q THEN fl
        ELSE IF fl % 2 = 0 THEN fl ELSE fl + 1

\* the number of hundredths nearest to |x|, for a finite x
Hundredths(x) ==
    IF x.kind = "rat" THEN RoundHalfEven(Abs(x.n) * 100, x.d)
    ELSE (ISqrt((40000 * x.n) \div x.d) + 1) \div 2

\* format(x, ".2f") for a finite x
Fixed2(x) ==
    LET h == Hundredths(x)
    IN  (IF x.kind = "rat" /\ x.n < 0 THEN <<"-">> ELSE <<>>)
        \o Digits(h \div 100) \o <<".">> \o Padded(h % 100, 2)

\* the least k >= 1 with d dividing 10^k (d is a divisor of a power of ten)
RECURSIVE FracDigits(_, _)
FracDigits(d, k) == IF Pow10(k) % d = 0 THEN k ELSE FracDigits(d, k + 1)

\* str(x) of a float that is a decimal fraction or inf: "10.0", "0.5", "inf"
Repr(x) ==
    IF IsInf(x) THEN <<"i", "n", "f">>
    ELSE LET k == FracDigits(x.d, 1)
             m == (Abs(x.n) * Pow10(k)) \div x.d
         IN  (IF x.n < 0 THEN <<"-">> ELSE <<>>)
             \o Digits(m \div Pow10(k)) \o <<".">> \o Padded(m % Pow10(k), k)

\* int(x): raises for inf, else a value (only its success is used)
IntOfFloat(x) == IF IsInf(x) THEN OverflowError ELSE x

(***************************************************************************)
(* Literal texts of the source.                                            *)
(***************************************************************************)
ID_MARK == <<"i", "d", ":">>
TYPE_MARK == <<"ö", "l", "ç", "ü", "m", ":">>
LOC_MARK == <<"y", "e", "r", ":">>
DATE_MARK == <<"t", "a", "r", "i", "h", ":">>
SEGMENT_SEP == <<" ", "-", " ">>
COLON == <<":">>
COMMA == <<",">>
NEWLINE == <<"\n">>
UNKNOWN == <<"u", "n", "k", "n", "o", "w", "n">>
TXT_EXT == <<".", "t", "x", "t">>

(***************************************************************************)
(* src/models/measurement.py                                               *)
(***************************************************************************)
\* Measurement(time, value): value = float(value); __init__ raises when the
\* value field of the record is an exception
Measurement(time, value) == [time |-> time, value |-> FloatOf(value)]

\* the empty dict
EmptyDict == [k \in {} |-> <<>>]

\* MeasurementFile(file_path): no metadata, no measurements
MeasurementFile(file_path) ==
    [file_path |-> file_path, metadata |-> EmptyDict, measurements |-> <<>>]

\* MeasurementFile.get_values
get_values(file_obj) ==
    [i \in 1..Len(file_obj.measurements) |-> file_obj.measurements[i].value]

\* dict.get(key, default)
DictGet(dict, key, default) == IF key \in DOMAIN dict THEN dict[key] ELSE default

(***************************************************************************)
(* src/core/file_reader.py                                                 *)
(***************************************************************************)
parse_metadata(header_line) ==
    LET parts == Split(Strip(header_line), SEGMENT_SEP)
        first_part == Strip(parts[1])
        id_section == Strip(Split(first_part, TYPE_MARK)[1])
        has_id == Contains(first_part, ID_MARK) /\ Contains(id_section, ID_MARK)
        has_type == Contains(first_part, TYPE_MARK)
        has_location == Len(parts) > 1 /\ Contains(parts[2], LOC_MARK)
        has_date == Len(parts) > 2 /\ Contains(parts[3], DATE_MARK)
        keys == (IF has_id THEN {"id"} ELSE {})
                \cup (IF has_type THEN {"type"} ELSE {})
                \cup (IF has_location THEN {"location"} ELSE {})
                \cup (IF has_date THEN {"date"} ELSE {})
    IN  [k \in keys |->
            CASE k = "id" -> Strip(Remove(id_section, ID_MARK))
              [] k = "type" -> Strip(Split(first_part, TYPE_MARK)[2])
              [] k = "location" -> Strip(Split(parts[2], COLON)[2])
              [] k = "date" -> Strip(Split(parts[3], COLON)[2])]

\* The loop of read_file over lines[1:]: the measurements appended so far and
\* the exception that left the loop, if any (the unpacking of a split into other
\* than two parts, or float() of the value, raises ValueError).
RECURSIVE read_lines(_, _)
read_lines(lines, measurements) ==
    IF lines = <<>> THEN [measurements |-> measurements, raised |-> NoError]
    ELSE LET line == Strip(Head(lines))
         IN  IF line # <<>> /\ Contains(line, COMMA)
             THEN LET fields == Split(line, COMMA)
                      m == Measurement(Strip(fields[1]), Strip(fields[2]))
                  IN  IF Len(fields) # 2 \/ IsError(m.value)
                      THEN [measurements |-> measurements, raised |-> ValueError]
                      ELSE read_lines(Tail(lines), Append(measurements, m))
             ELSE read_lines(Tail(lines), measurements)

\* read_file with its try block but without its except clause: the file object as
\* it is when the function returns or when an exception leaves the try block.
\* A directory entry is [name, readable, lines]; open() or readlines() of an
\* unreadable entry raises.
read_file_body(entry) ==
    LET measurement_file == MeasurementFile(entry.name)
    IN  IF ~entry.readable THEN [file |-> measurement_file, raised |-> OSError]
        ELSE IF entry.lines = <<>> THEN [file |-> measurement_file, raised |-> NoError]
        ELSE LET body == read_lines(Tail(entry.lines), <<>>)
             IN  [file |-> [file_path |-> entry.name,
                            metadata |-> parse_metadata(Head(entry.lines)),
                            measurements |-> body.measurements],
                  raised |-> body.raised]

\* read_file without the handler of line 63: the exception propagates
read_file_uncaught(entry) == read_file_body(entry)

\* read_file: `except Exception` prints and the file object is returned
read_file(entry) == [file |-> read_file_body(entry).file, raised |-> NoError]

(***************************************************************************)
(* src/core/calculator.py: the strategies.  A strategy is named by its     *)
(* class; a scalar result is a float of the model and a frequency result   *)
(* is [kind |-> "dict", counts |-> value -> count].                        *)
(***************************************************************************)
None == "None"
ScalarStrategies == {"Average", "Maximum", "Minimum", "StandardDeviation", "Median"}
Strategies == ScalarStrategies \cup {"Frequency"}

\* the elements of a sequence
Range(seq) == {seq[i] : i \in 1..Len(seq)}

\* max(values) of a non-empty sequence
Max(values) == CHOOSE v \in Range(values) : \A w \in Range(values) : ~Less(v, w)

\* min(values) of a non-empty sequence
Min(values) == CHOOSE v \in Range(values) : \A w \in Range(values) : ~Less(w, v)

\* sorted(values)
RECURSIVE Sorted(_)
Sorted(values) ==
    IF values = <<>> THEN <<>>
    ELSE LET i == CHOOSE j \in 1..Len(values) : values[j] = Min(values)
         IN  <<values[i]>>
             \o Sorted(SubSeq(values, 1, i - 1) \o SubSeq(values, i + 1, Len(values)))

\* statistics.median of a non-empty sequence
MedianOf(values) ==
    LET data == Sorted(values)
        n == Len(data)
    IN  IF n % 2 = 1 THEN data[(n \div 2) + 1]
        ELSE DivInt(Add(data[n \div 2], data[(n \div 2) + 1]), 2)

\* statistics.stdev of a sequence of at least two values: the square root of
\* the sample variance; with an infinite value among them the call raises
\* (CPython 3.11: the exact-fraction sum of squares has no numerator).
StdevOf(values) ==
    IF \E i \in 1..Len(values) : IsInf(values[i]) THEN AttributeError
    ELSE LET n == Len(values)
             mean == DivInt(Sum(values), n)
             squares == [i \in 1..n |-> Mul(Sub(values[i], mean), Sub(values[i], mean))]
         IN  SqrtOf(DivInt(Sum(squares), n - 1))

\* dict(Counter(values))
CounterOf(values) ==
    [kind |-> "dict",
     counts |-> [v \in Range(values) |-> Cardinality({i \in 1..Len(values) : values[i] = v})]]

EmptyCounter == [kind |-> "dict", counts |-> [v \in {} |-> 0]]

AverageCalculate(values) ==
    IF values = <<>> THEN Zero ELSE DivInt(Sum(values), Len(values))

MaximumCalculate(values) == IF values = <<>> THEN Zero ELSE Max(values)

MinimumCalculate(values) == IF values = <<>> THEN Zero ELSE Min(values)

\* statistics.stdev for fewer than two values
StatisticsError == [kind |-> "StatisticsError"]

\* `if not values` in place of `if len(values) < 2`
StandardDeviationCalculateNotEmpty(values) ==
    IF values = <<>> THEN Zero
    ELSE IF Len(values) = 1 THEN StatisticsError
    ELSE StdevOf(values)

StandardDeviationCalculate(values) == IF Len(values) < 2 THEN Zero ELSE StdevOf(values)

FrequencyCalculate(values) == IF values = <<>> THEN EmptyCounter ELSE CounterOf(values)

MedianCalculate(values) == IF values = <<>> THEN Zero ELSE MedianOf(values)

\* strategy.calculate(values)
Calculate(strategy, values) ==
    CASE strategy = "Average" -> AverageCalculate(values)
      [] strategy = "Maximum" -> MaximumCalculate(values)
      [] strategy = "Minimum" -> MinimumCalculate(values)
      [] strategy = "StandardDeviation" -> StandardDeviationCalculate(values)
      [] strategy = "Frequency" -> FrequencyCalculate(values)
      [] strategy = "Median" -> MedianCalculate(values)

\* strategy.get_name()
get_name(strategy) ==
    CASE strategy = "Average" -> <<"a", "v", "e", "r", "a", "g", "e">>
      [] strategy = "Maximum" -> <<"m", "a", "x", "i", "m", "u", "m">>
      [] strategy = "Minimum" -> <<"m", "i", "n", "i", "m", "u", "m">>
      [] strategy = "StandardDeviation" ->
            <<"s", "t", "a", "n", "d", "a", "r", "d",
              "d", "e", "v", "i", "a", "t", "i", "o", "n">>
      [] strategy = "Frequency" -> <<"f", "r", "e", "q", "u", "e", "n", "c", "y">>
      [] strategy = "Median" -> <<"m", "e", "d", "i", "a", "n">>

\* the label of a scalar strategy's format_result
Label(strategy) ==
    CASE strategy = "Average" -> <<"a", "v", "g">>
      [] strategy = "Maximum" -> <<"m", "a", "x">>
      [] strategy = "Minimum" -> <<"m", "i", "n">>
      [] strategy = "StandardDeviation" -> <<"s", "t", "d">>
      [] strategy = "Median" -> <<"m", "e", "d", "i", "a", "n">>

TIMES_MEASURED == <<" ", "d", "e", "f", "a", " ", "ö", "l", "ç", "ü", "l", "d", "ü">>

\* sorted(result.items()): the keys of a frequency result in ascending order
RECURSIVE SortedKeys(_)
SortedKeys(keys) ==
    IF keys = {} THEN <<>>
    ELSE LET k == CHOOSE v \in keys : \A w \in keys : ~Less(w, v)
         IN  <<k>> \o SortedKeys(keys \ {k})

\* The f-string of the scalar format_result methods,
\*   f"avg: {result if result == int(result) else result:.2f}":
\* the format specification applies to the whole conditional expression, so
\* either branch is printed with two decimals; int(result) raises for inf.
ScalarFormat(strategy, result) ==
    IF IsError(IntOfFloat(result)) THEN [text |-> <<>>, raised |-> IntOfFloat(result)]
    ELSE [text |-> Label(strategy) \o <<":", " ">> \o Fixed2(result),
          raised |-> NoError]

\* FrequencyStrategy.format_result
FrequencyFormat(result) ==
    LET keys == SortedKeys(DOMAIN result.counts)
    IN  [text |-> Join([i \in 1..Len(keys) |->
                           Repr(keys[i]) \o <<" ">>
                           \o Digits(result.counts[keys[i]]) \o TIMES_MEASURED],
                       NEWLINE),
         raised |-> NoError]

\* strategy.format_result(result): the text, or the exception raised
format_result(strategy, result) ==
    IF strategy = "Frequency" THEN FrequencyFormat(result)
    ELSE ScalarFormat(strategy, result)

\* CalculatorContext.calculate with the bound strategy
NoResult == [kind |-> "None"]
ContextCalculate(strategy, values) ==
    IF strategy # None THEN Calculate(strategy, values) ELSE NoResult

\* str.lower() on the letters that occur in operation names
Upper == <<"A", "V", "E", "R", "G", "M", "X", "I", "N", "U", "D", "S", "T", "O", "F", "Q", "C", "Y">>
Lower == <<"a", "v", "e", "r", "g", "m", "x", "i", "n", "u", "d", "s", "t", "o", "f", "q", "c", "y">>
LowerChar(c) ==
    IF \E i \in 1..Len(Upper) : Upper[i] = c
    THEN Lower[CHOOSE i \in 1..Len(Upper) : Upper[i] = c]
    ELSE c
ToLower(text) == [i \in 1..Len(text) |-> LowerChar(text[i])]

OP_AVERAGE == <<"a", "v", "e", "r", "a", "g", "e">>
OP_MAXIMUM == <<"m", "a", "x", "i", "m", "u", "m">>
OP_MINIMUM == <<"m", "i", "n", "i", "m", "u", "m">>
OP_STANDARD_DEVIATION ==
    <<"s", "t", "a", "n", "d", "a", "r", "d", "_",
      "d", "e", "v", "i", "a", "t", "i", "o", "n">>
OP_FREQUENCY == <<"f", "r", "e", "q", "u", "e", "n", "c", "y">>
OP_MEDIAN == <<"m", "e", "d", "i", "a", "n">>

\* CalculatorFactory.create_calculator: calculators.get(calculation_type.lower())
create_calculator(calculation_type) ==
    LET key == ToLower(calculation_type)
    IN  CASE key = OP_AVERAGE -> "Average"
          [] key = OP_MAXIMUM -> "Maximum"
          [] key = OP_MINIMUM -> "Minimum"
          [] key = OP_STANDARD_DEVIATION -> "StandardDeviation"
          [] key = OP_FREQUENCY -> "Frequency"
          [] key = OP_MEDIAN -> "Median"
          [] OTHER -> None

(***************************************************************************)
(* src/core/calculator.py: ResultWriter.  The text a call writes into its  *)
(* report, and the exception that ended the writing, if any.               *)
(***************************************************************************)
_get_measurement_unit(measurement_type) ==
    IF measurement_type = "temperature" THEN <<"D", "e", "r", "e", "c", "e">>
    ELSE IF measurement_type = "humidity" THEN <<"%">>
    ELSE <<>>

\* the metadata line without the blank after `yer:` and `tarih:`
_format_file_metadata_compact(file_obj) ==
    LET metadata == file_obj.metadata
    IN  ID_MARK \o DictGet(metadata, "id", UNKNOWN)
        \o <<" ">> \o TYPE_MARK \o <<" ">> \o DictGet(metadata, "type", UNKNOWN)
        \o SEGMENT_SEP \o LOC_MARK \o DictGet(metadata, "location", UNKNOWN)
        \o SEGMENT_SEP \o DATE_MARK \o DictGet(metadata, "date", UNKNOWN)

_format_file_metadata(file_obj) ==
    LET metadata == file_obj.metadata
    IN  ID_MARK \o DictGet(metadata, "id", UNKNOWN)
        \o <<" ">> \o TYPE_MARK \o <<" ">> \o DictGet(metadata, "type", UNKNOWN)
        \o SEGMENT_SEP \o LOC_MARK \o <<" ">> \o DictGet(metadata, "location", UNKNOWN)
        \o SEGMENT_SEP \o DATE_MARK \o <<" ">> \o DictGet(metadata, "date", UNKNOWN)

\* the lines of a frequency result with the unit of the measurement type
FrequencyLines(measurement_type, result) ==
    LET keys == SortedKeys(DOMAIN result.counts)
        measurement_unit == _get_measurement_unit(measurement_type)
    IN  Join([i \in 1..Len(keys) |->
                 Repr(keys[i]) \o <<" ">> \o measurement_unit \o <<" ">>
                 \o Digits(result.counts[keys[i]]) \o TIMES_MEASURED],
             NEWLINE)

DASHES == [i \in 1..15 |-> "-"]
RESULT_SEP == <<" ", ",", " ">>

\* what one pass of the loop of write_file_result writes for (file_obj, result)
FileEntryText(measurement_type, strategy, file_obj, result) ==
    IF result.kind = "dict"
    THEN [text |-> _format_file_metadata(file_obj) \o NEWLINE
                   \o FrequencyLines(measurement_type, result)
                   \o NEWLINE \o DASHES \o NEWLINE,
          raised |-> NoError]
    ELSE LET formatted == format_result(strategy, result)
         IN  IF formatted.raised # NoError THEN formatted
             ELSE [text |-> _format_file_metadata(file_obj) \o RESULT_SEP
                            \o formatted.text \o NEWLINE,
                   raised |-> NoError]

\* the loop of write_file_result over file_results, from the text written so far
RECURSIVE write_file_entries(_, _, _, _)
write_file_entries(measurement_type, strategy, file_results, text) ==
    IF file_results = <<>> THEN [text |-> text, raised |-> NoError]
    ELSE LET entry == FileEntryText(measurement_type, strategy,
                                    Head(file_results)[1], Head(file_results)[2])
         IN  IF entry.raised # NoError THEN [text |-> text, raised |-> entry.raised]
             ELSE write_file_entries(measurement_type, strategy,
                                     Tail(file_results), text \o entry.text)

\* write_global_result ending its text with a line break
GlobalTextLine(measurement_type, strategy, result) ==
    IF result.kind = "dict"
    THEN [text |-> FrequencyLines(measurement_type, result), raised |-> NoError]
    ELSE [text |-> format_result(strategy, result).text \o NEWLINE,
          raised |-> format_result(strategy, result).raised]

\* the body of `with open(file_path, 'w')` in write_global_result
GlobalText(measurement_type, strategy, result) ==
    IF result.kind = "dict"
    THEN [text |-> FrequencyLines(measurement_type, result), raised |-> NoError]
    ELSE format_result(strategy, result)

DEGERLER_TXT == <<"d", "e", "g", "e", "r", "l", "e", "r", ".", "t", "x", "t">>
GLOBAL_ == <<"g", "l", "o", "b", "a", "l">>

\* os.path.join(output_dir, measurement_type, f"{strategy.get_name()}degerler.txt")
FileReportPath(measurement_type, strategy) ==
    <<measurement_type, get_name(strategy) \o DEGERLER_TXT>>

\* os.path.join(output_dir, measurement_type, f"global{strategy.get_name()}.txt")
GlobalReportPath(measurement_type, strategy) ==
    <<measurement_type, GLOBAL_ \o get_name(strategy) \o TXT_EXT>>

(***************************************************************************)
(* The inputs: the measurement files found on disk, the operations list    *)
(* and the use_global flag.                                                *)
(***************************************************************************)
\* a.txt: the file of the scenario: a full header and the values 10 and 20
\* (the dotless i of the type text is written i: the text is an opaque payload)
FILE_A ==
    [name |-> <<"a", ".", "t", "x", "t">>,
     readable |-> TRUE,
     lines |-> <<
        <<"i", "d", ":", "1", " ", "ö", "l", "ç", "ü", "m", ":", " ", "s", "i",
          "c", "a", "k", "l", "i", "k", " ", "-", " ", "y", "e", "r", ":", "X",
          " ", "-", " ", "t", "a", "r", "i", "h", ":", "2", "0", "2", "4", "-",
          "0", "1", "-", "0", "1">>,
        <<"0", "8", ":", "0", "0", ",", "1", "0">>,
        <<"0", "9", ":", "0", "0", ",", "2", "0">>>>]

\* b.txt: a header with an id only, a blank line, a line without separator, the values 5, 5, 8
FILE_B ==
    [name |-> <<"b", ".", "t", "x", "t">>,
     readable |-> TRUE,
     lines |-> <<
        <<"i", "d", ":", "2">>,
        <<>>,
        <<"n", "o", " ", "v", "a", "l", "u", "e">>,
        <<"0", "7", ":", "0", "0", ",", "5">>,
        <<"0", "7", ":", "3", "0", ",", " ", "5", " ">>,
        <<"0", "8", ":", "0", "0", ",", "8">>>>]

\* c.txt: an unparseable value before a parseable line
FILE_C ==
    [name |-> <<"c", ".", "t", "x", "t">>,
     readable |-> TRUE,
     lines |-> <<
        <<"i", "d", ":", "3", " ", "ö", "l", "ç", "ü", "m", ":", " ", "n", "e",
          "m", " ", "-", " ", "y", "e", "r", ":", "Y">>,
        <<"0", "8", ":", "0", "0", ",", "a", "b", "c">>,
        <<"0", "9", ":", "0", "0", ",", "2", "0">>>>]

\* d.txt: an empty file
FILE_D ==
    [name |-> <<"d", ".", "t", "x", "t">>,
     readable |-> TRUE,
     lines |-> <<>>]

\* e.txt: a file whose open() or readlines() fails
FILE_E ==
    [name |-> <<"e", ".", "t", "x", "t">>,
     readable |-> FALSE,
     lines |-> <<
        <<"i", "d", ":", "5", " ", "ö", "l", "ç", "ü", "m", ":", " ", "n", "e",
          "m">>,
        <<"0", "8", ":", "0", "0", ",", "7">>>>]

\* f.md: not a .txt file
FILE_F ==
    [name |-> <<"f", ".", "m", "d">>,
     readable |-> TRUE,
     lines |-> <<
        <<"i", "d", ":", "6">>,
        <<"0", "8", ":", "0", "0", ",", "3">>>>]

\* g.txt: a header without id, an infinite value and 1.5
FILE_G ==
    [name |-> <<"g", ".", "t", "x", "t">>,
     readable |-> TRUE,
     lines |-> <<
        <<"ö", "l", "ç", "ü", "m", ":", " ", "n", "e", "m", " ", "-", " ", "y",
          "e", "r", ":", "Z", " ", "-", " ", "t", "a", "r", "i", "h", ":", "1">>,
        <<"0", "8", ":", "0", "0", ",", "i", "n", "f">>,
        <<"0", "9", ":", "0", "0", ",", "1", ".", "5">>>>]

\* h.txt: a line that splits into three parts before a parseable line
FILE_H ==
    [name |-> <<"h", ".", "t", "x", "t">>,
     readable |-> TRUE,
     lines |-> <<
        <<"i", "d", ":", "8", " ", "ö", "l", "ç", "ü", "m", ":", " ", "n", "e",
          "m">>,
        <<"0", "8", ":", "0", "0", ",", "4">>,
        <<"a", ",", "b", ",", "c">>,
        <<"0", "9", ":", "0", "0", ",", "6">>>>]

\* The files a subdirectory may list, named by their first letter.
SampleNames == {"a", "b", "c", "d", "e", "f", "g", "h"}
SampleFile(letter) ==
    CASE letter = "a" -> FILE_A
      [] letter = "b" -> FILE_B
      [] letter = "c" -> FILE_C
      [] letter = "d" -> FILE_D
      [] letter = "e" -> FILE_E
      [] letter = "f" -> FILE_F
      [] letter = "g" -> FILE_G
      [] letter = "h" -> FILE_H

\* os.listdir of a subdirectory: its entries, in listing order
Listing(directory) ==
    [i \in 1..Len(directory.entries) |-> SampleFile(directory.entries[i])]

OP_UPPER == <<"A", "V", "E", "R", "A", "G", "E">>
OP_UNKNOWN == <<"m", "o", "d", "e">>
OperationNames ==
    {OP_AVERAGE, OP_MAXIMUM, OP_MINIMUM, OP_STANDARD_DEVIATION, OP_FREQUENCY,
     OP_MEDIAN, OP_UPPER, OP_UNKNOWN}

\* the sequences over S of length at most n
SeqsUpTo(S, n) == UNION {[1..k -> S] : k \in 0..n}

\* a subdirectory that does not exist
Absent == [present |-> FALSE, listable |-> FALSE, entries |-> <<>>]

\* the subdirectories that os.listdir can list, with at most n files out of S
Directories(S, n) ==
    {Absent} \cup {[present |-> TRUE, listable |-> TRUE, entries |-> es] :
                     es \in SeqsUpTo(S, n)}

\* a subdirectory for which os.listdir raises
Unlistable == [present |-> TRUE, listable |-> FALSE, entries |-> <<>>]

\* measurement_files.items(): the keys in the order scan_directory inserts them
MeasurementTypes == <<"temperature", "humidity">>

(***************************************************************************)
(* The state.                                                              *)
(***************************************************************************)
VARIABLES
    dirs,          \* the two measurement subdirectories of the selected folder:
                   \* whether each is present, and the files it lists
    operations,    \* the operations list passed to process_calculations
    use_global,    \* the use_global flag
    calls,         \* how often the driver calls process_calculations
    pc,            \* "scan", "scanned", "type", "op", "files", "write", "global", "done";
                   \* "call", "returned" for a direct call of a strategy
    scan_type,     \* scan_directory: index of the subdirectory being scanned
    scan_index,    \* scan_directory: 0 before listdir, else index in the listing
    scan_error,    \* the exception the except clause of scan_directory caught
    result,        \* scan_directory's result, then measurement_files
    type_index,    \* process_calculations: position in measurement_files.items()
    op_index,      \* process_calculations: position in operations
    strategy,      \* the strategy created for the current operation (line 37)
    context_strategy, \* calculator_context.strategy
    context_calls, \* the calls calculator_context.calculate(values) of the current
                   \* call of process_calculations, in order: the operation being
                   \* processed, the strategy bound, the values, the result or
                   \* the exception
    file_results,  \* file_results of the current (type, operation) pair
    status,        \* status of the current call
    message,       \* message of the current call, None until it is set
    disk,          \* the report files under <root>/result: path -> text
    writes,        \* the report files the current call opened for writing, in
                   \* order: the path, the text written, the exception if any
    run,           \* calls of process_calculations started so far
    first_call,    \* what the first call left: the report files and the message
    call_strategy, \* a direct call strategy.calculate(values): the strategy,
    call_values,   \* its argument,
    call_result    \* and what it returned or raised, None before the return

vars == <<dirs, operations, use_global, calls, pc, scan_type, scan_index, scan_error,
          result, type_index, op_index, strategy, file_results, status, message,
          disk, writes, run, first_call, call_strategy, call_values, call_result,
          context_strategy, context_calls>>

context == <<context_strategy, context_calls>>
direct == <<call_strategy, call_values, call_result>>
inputs == <<dirs, operations, use_global, calls>>
scan_vars == <<scan_type, scan_index, scan_error>>

NoFiles == [p \in {} |-> <<>>]
NoMessage == [kind |-> "None"]

\* no strategy is called directly
NoDirectCall ==
    /\ call_strategy = None
    /\ call_values = <<>>
    /\ call_result = NoResult

\* the pipeline before scan_directory is called
BeforeScan ==
    /\ scan_type = 1
    /\ scan_index = 0
    /\ scan_error = NoError
    /\ result = [temperature |-> <<>>, humidity |-> <<>>]
    /\ type_index = 0
    /\ op_index = 0
    /\ strategy = None
    /\ context_strategy = None
    /\ context_calls = <<>>
    /\ file_results = <<>>
    /\ status = "Success"
    /\ message = NoMessage
    /\ disk = NoFiles
    /\ writes = <<>>
    /\ run = 0
    /\ first_call = [disk |-> NoFiles, message |-> NoMessage]

\* the state before scan_directory is called
Begin ==
    /\ pc = "scan"
    /\ NoDirectCall
    /\ BeforeScan

\* One call, on every operations list.
Init ==
    /\ dirs \in [temperature : Directories({"a", "b", "d", "g"}, MaxFiles),
                 humidity : Directories({"b"}, MaxFiles - 1)]
    /\ operations \in SeqsUpTo(OperationNames, MaxOps)
    /\ use_global \in BOOLEAN
    /\ calls = 1
    /\ Begin

\* Repeated calls on the same input.
InitRerun ==
    /\ dirs \in [temperature : Directories({"a", "b", "g"}, MaxFiles),
                 humidity : Directories({"b"}, MaxFiles - 1)]
    /\ operations \in SeqsUpTo({OP_AVERAGE, OP_FREQUENCY, OP_STANDARD_DEVIATION}, MaxOps)
    /\ use_global \in BOOLEAN
    /\ calls = MaxRuns
    /\ Begin

\* Every kind of file and of subdirectory, one operations list.
InitScan ==
    /\ dirs \in [temperature : Directories(SampleNames, MaxFiles) \cup {Unlistable},
                 humidity : Directories(SampleNames, MaxFiles - 1) \cup {Unlistable}]
    /\ operations = <<OP_AVERAGE>>
    /\ use_global \in BOOLEAN
    /\ calls = 1
    /\ Begin

(***************************************************************************)
(* FileReader.scan_directory, one step per listdir and per directory entry *)
(***************************************************************************)
ScanType == MeasurementTypes[scan_type]

\* the for loop over a listing is over: the next subdirectory, or the return
NextDirectory ==
    IF scan_type = Len(MeasurementTypes)
    THEN /\ pc' = "scanned"
         /\ UNCHANGED <<scan_type, scan_index>>
    ELSE /\ pc' = "scan"
         /\ scan_type' = scan_type + 1
         /\ scan_index' = 0

\* os.path.isdir(...) and os.listdir(...) of the current subdirectory; when
\* listdir raises, the except clause of scan_directory prints and the result
\* collected so far is returned
ListDirectory ==
    /\ pc = "scan"
    /\ scan_index = 0
    /\ IF ~dirs[ScanType].present
       THEN /\ NextDirectory
            /\ UNCHANGED scan_error
       ELSE IF ~dirs[ScanType].listable
       THEN /\ pc' = "scanned"
            /\ scan_error' = OSError
            /\ UNCHANGED <<scan_type, scan_index>>
       ELSE IF dirs[ScanType].entries = <<>>
       THEN /\ NextDirectory
            /\ UNCHANGED scan_error
       ELSE /\ scan_index' = 1
            /\ UNCHANGED <<pc, scan_type, scan_error>>
    /\ UNCHANGED <<inputs, direct, context, result, type_index, op_index, strategy,
                   file_results, status, message, disk, writes, run, first_call>>

\* one pass of `for filename in os.listdir(...)`
ReadEntry ==
    /\ pc = "scan"
    /\ scan_index >= 1
    /\ LET entries == Listing(dirs[ScanType])
           entry == entries[scan_index]
           read == read_file(entry)
       IN  IF ~EndsWith(entry.name, TXT_EXT)
           THEN /\ UNCHANGED <<result, scan_error>>
                /\ IF scan_index = Len(entries) THEN NextDirectory
                   ELSE /\ scan_index' = scan_index + 1
                        /\ UNCHANGED <<pc, scan_type>>
           ELSE IF read.raised # NoError
           THEN /\ pc' = "scanned"
                /\ scan_error' = read.raised
                /\ UNCHANGED <<result, scan_type, scan_index>>
           ELSE /\ result' = [result EXCEPT ![ScanType] = Append(@, read.file)]
                /\ UNCHANGED scan_error
                /\ IF scan_index = Len(entries) THEN NextDirectory
                   ELSE /\ scan_index' = scan_index + 1
                        /\ UNCHANGED <<pc, scan_type>>
    /\ UNCHANGED <<inputs, direct, context, type_index, op_index, strategy, file_results, status,
                   message, disk, writes, run, first_call>>

(***************************************************************************)
(* CalculationProcessor.process_calculations                               *)
(***************************************************************************)
OUTPUT_DIRECTORY == "result"

CurrentType == MeasurementTypes[type_index]
CurrentFiles == result[CurrentType]

SuccessMessage == [kind |-> "success", directory |-> OUTPUT_DIRECTORY]
ErrorMessage(e) == [kind |-> "error", description |-> e]

\* lines 81-84, the return of the call; what the first call leaves is remembered
Return(files, text) ==
    /\ pc' = "done"
    /\ message' = text
    /\ first_call' = IF run = 1 THEN [disk |-> files, message |-> text] ELSE first_call

\* line 79 left out: the status stays as line 27 set it
ExceptStatusKept(previous) == previous

\* the status that line 79 assigns
ExceptStatus(previous) == "Error"

\* lines 77-79: `except Exception as e` sets the message and the status
Except(e, files) ==
    /\ status' = ExceptStatus(status)
    /\ Return(files, ErrorMessage(e))

\* the call starts: lines 26-27
Start ==
    /\ pc \in {"scanned", "done"}
    /\ run < calls
    /\ run' = run + 1
    /\ status' = "Success"
    /\ message' = NoMessage
    /\ writes' = <<>>
    /\ file_results' = <<>>
    /\ type_index' = 1
    /\ op_index' = 0
    /\ pc' = "type"
    /\ context_calls' = <<>>
    /\ UNCHANGED <<inputs, direct, scan_vars, result, strategy, context_strategy, disk,
                   first_call>>

\* line 32 left out: no file list is skipped
SkipTypeNever(files) == FALSE

\* line 32: `if not files`
SkipType(files) == files = <<>>

\* line 31-33: the next measurement type, or line 75 and the return
NextType ==
    /\ pc = "type"
    /\ IF type_index > Len(MeasurementTypes)
       THEN /\ Return(disk, SuccessMessage)
            /\ UNCHANGED <<type_index, op_index>>
       ELSE IF SkipType(CurrentFiles)
       THEN /\ type_index' = type_index + 1
            /\ UNCHANGED <<pc, op_index, message, first_call>>
       ELSE /\ op_index' = 1
            /\ pc' = "op"
            /\ UNCHANGED <<type_index, message, first_call>>
    /\ UNCHANGED <<inputs, direct, context, scan_vars, result, strategy, file_results,
                   status, disk, writes, run>>

\* the loop over operations moves on
AdvanceOperation ==
    IF op_index = Len(operations)
    THEN /\ type_index' = type_index + 1
         /\ pc' = "type"
         /\ UNCHANGED op_index
    ELSE /\ op_index' = op_index + 1
         /\ pc' = "op"
         /\ UNCHANGED type_index

\* line 41 left out: the context keeps the strategy it had
set_strategy_skipped(bound, created) == bound

\* CalculatorContext.set_strategy: the strategy of the context after the call
set_strategy(bound, created) == created

\* lines 36-41: the strategy of the next operation is created and bound
NextOperation ==
    /\ pc = "op"
    /\ IF op_index > Len(operations)
       THEN /\ type_index' = type_index + 1
            /\ pc' = "type"
            /\ UNCHANGED <<op_index, strategy, context_strategy>>
       ELSE LET created == create_calculator(operations[op_index])
            IN  IF created = None
                THEN /\ AdvanceOperation
                     /\ UNCHANGED <<strategy, context_strategy>>
                ELSE /\ strategy' = created
                     /\ context_strategy' = set_strategy(context_strategy, created)
                     /\ pc' = "files"
                     /\ UNCHANGED <<type_index, op_index>>
    /\ UNCHANGED <<inputs, direct, scan_vars, result, file_results, status, message,
                   disk, writes, run, first_call, context_calls>>

\* line 47 left out: a result is calculated for every file
HasValuesAlways(values) == TRUE

\* line 47: `if values`
HasValues(values) == values # <<>>

\* lines 44-49 from file number i on: the (file, result) pairs, or the exception
\* that calculate raised
RECURSIVE PerFileResults(_, _, _, _)
PerFileResults(bound, files, i, acc) ==
    IF i > Len(files) THEN [results |-> acc, raised |-> NoError]
    ELSE LET values == get_values(files[i])
         IN  IF HasValues(values)
             THEN LET r == ContextCalculate(bound, values)
                  IN  IF IsError(r) THEN [results |-> acc, raised |-> r]
                      ELSE PerFileResults(bound, files, i + 1, Append(acc, <<files[i], r>>))
             ELSE PerFileResults(bound, files, i + 1, acc)

\* one call calculator_context.calculate(values) as context_calls records it
ContextCall(bound, values) ==
    [operation |-> operations[op_index], bound |-> bound, values |-> values,
     result |-> ContextCalculate(bound, values)]

\* lines 44-49: the calls of calculator_context.calculate that the loop makes,
\* the last one being the one that raised, if one did
PerFileCalls(bound, files) ==
    LET called == SelectSeq(files, LAMBDA f : HasValues(get_values(f)))
        made == [k \in 1..Len(called) |-> ContextCall(bound, get_values(called[k]))]
        raising == {k \in 1..Len(made) : IsError(made[k].result)}
    IN  IF raising = {} THEN made
        ELSE SubSeq(made, 1, CHOOSE k \in raising : \A j \in raising : k <= j)

\* lines 44-49: the per-file results of the current pair
CalculateFiles ==
    /\ pc = "files"
    /\ context_calls' = context_calls \o PerFileCalls(context_strategy, CurrentFiles)
    /\ LET computed == PerFileResults(context_strategy, CurrentFiles, 1, <<>>)
       IN  IF computed.raised # NoError
           THEN /\ Except(computed.raised, disk)
                /\ UNCHANGED file_results
           ELSE /\ file_results' = computed.results
                /\ pc' = "write"
                /\ UNCHANGED <<status, message, first_call>>
    /\ UNCHANGED <<inputs, direct, scan_vars, result, type_index, op_index, strategy,
                   context_strategy, disk, writes, run>>

\* open(path, 'a') instead of 'w': the text is added to what the file holds
WrittenAppending(files, path, text) ==
    [p \in DOMAIN files \cup {path} |->
        IF p = path THEN (IF p \in DOMAIN files THEN files[p] ELSE <<>>) \o text
        ELSE files[p]]

\* the files after open(path, 'w') and the writing of text
Written(files, path, text) ==
    [p \in DOMAIN files \cup {path} |-> IF p = path THEN text ELSE files[p]]

\* after the per-file report: the global step if requested, else the next operation
AfterFileReport ==
    IF use_global
    THEN /\ pc' = "global"
         /\ UNCHANGED <<type_index, op_index>>
    ELSE AdvanceOperation

\* lines 52-57: ResultWriter.write_file_result.  The operating system may refuse
\* makedirs or open (nothing is written), or the flush of the buffered text when
\* the file is closed (the file is left empty).
WriteFileResult ==
    /\ pc = "write"
    /\ LET path == FileReportPath(CurrentType, strategy)
           written == write_file_entries(CurrentType, strategy, file_results, <<>>)
       IN  \E os \in {"ok", "open fails", "flush fails"} :
             IF os = "open fails"
             THEN /\ Except(OSError, disk)
                  /\ UNCHANGED <<disk, writes, type_index, op_index>>
             ELSE LET text == IF os = "flush fails" THEN <<>> ELSE written.text
                      raised == IF os = "flush fails" THEN OSError ELSE written.raised
                      files == Written(disk, path, text)
                  IN  /\ disk' = files
                      /\ writes' = Append(writes, [path |-> path, text |-> text,
                                                   raised |-> raised])
                      /\ IF raised # NoError
                         THEN /\ Except(raised, files)
                              /\ UNCHANGED <<type_index, op_index>>
                         ELSE /\ AfterFileReport
                              /\ UNCHANGED <<status, message, first_call>>
    /\ UNCHANGED <<inputs, direct, context, scan_vars, result, strategy, file_results,
                   run>>

\* lines 62-64: the values of all files of the type, in file order
RECURSIVE AllValues(_)
AllValues(files) ==
    IF files = <<>> THEN <<>> ELSE get_values(Head(files)) \o AllValues(Tail(files))

\* line 66 left out: the global result is always calculated and written
HasGlobalValuesAlways(all_values) == TRUE

\* line 66: `if all_values`
HasGlobalValues(all_values) == all_values # <<>>

\* lines 60-73: the global result is calculated and written
WriteGlobalResult ==
    /\ pc = "global"
    /\ LET all_values == AllValues(CurrentFiles)
           global_result == ContextCalculate(context_strategy, all_values)
           path == GlobalReportPath(CurrentType, strategy)
       IN  IF ~HasGlobalValues(all_values)
           THEN /\ AdvanceOperation
                /\ UNCHANGED <<disk, writes, status, message, first_call>>
           ELSE IF IsError(global_result)
           THEN /\ Except(global_result, disk)
                /\ UNCHANGED <<disk, writes, type_index, op_index>>
           ELSE \E os \in {"ok", "open fails", "flush fails"} :
                  IF os = "open fails"
                  THEN /\ Except(OSError, disk)
                       /\ UNCHANGED <<disk, writes, type_index, op_index>>
                  ELSE LET written == GlobalText(CurrentType, strategy, global_result)
                           text == IF os = "flush fails" THEN <<>> ELSE written.text
                           raised == IF os = "flush fails" THEN OSError
                                     ELSE written.raised
                           files == Written(disk, path, text)
                       IN  /\ disk' = files
                           /\ writes' = Append(writes, [path |-> path, text |-> text,
                                                        raised |-> raised])
                           /\ IF raised # NoError
                              THEN /\ Except(raised, files)
                                   /\ UNCHANGED <<type_index, op_index>>
                              ELSE /\ AdvanceOperation
                                   /\ UNCHANGED <<status, message, first_call>>
    /\ context_calls' = IF HasGlobalValues(AllValues(CurrentFiles))
                        THEN Append(context_calls,
                                    ContextCall(context_strategy, AllValues(CurrentFiles)))
                        ELSE context_calls
    /\ UNCHANGED <<inputs, direct, scan_vars, result, strategy, context_strategy,
                   file_results, run>>

\* the values of the direct calls
SampleValues == {Rat(1, 1), Rat(2, 1), Rat(5, 2), Inf}

\* A strategy object called directly: every strategy, on every short sequence.
InitCalculate ==
    /\ pc = "call"
    /\ call_strategy \in Strategies
    /\ call_values \in SeqsUpTo(SampleValues, MaxValues)
    /\ call_result = NoResult
    /\ dirs = [temperature |-> Absent, humidity |-> Absent]
    /\ operations = <<>>
    /\ use_global = FALSE
    /\ calls = 0
    /\ BeforeScan

\* strategy.calculate(values), called on the strategy object
StrategyCalculate ==
    /\ pc = "call"
    /\ call_result' = Calculate(call_strategy, call_values)
    /\ pc' = "returned"
    /\ UNCHANGED <<inputs, scan_vars, result, type_index, op_index, strategy,
                   file_results, status, message, disk, writes, run, first_call,
                   call_strategy, call_values, context>>

NextCalculate == StrategyCalculate

Next ==
    \/ ListDirectory
    \/ ReadEntry
    \/ Start
    \/ NextType
    \/ NextOperation
    \/ CalculateFiles
    \/ WriteFileResult
    \/ WriteGlobalResult

Spec == Init /\ [][Next]_vars
SpecRerun == InitRerun /\ [][Next]_vars
SpecScan == InitScan /\ [][Next]_vars
SpecCalculate == InitCalculate /\ [][NextCalculate]_vars

(***************************************************************************)
(* Vocabulary of the properties.                                           *)
(***************************************************************************)
\* The recognized operation identifiers and the strategy each one names.
RecognizedOperations ==
    {<<OP_AVERAGE, "Average">>, <<OP_MAXIMUM, "Maximum">>, <<OP_MINIMUM, "Minimum">>,
     <<OP_STANDARD_DEVIATION, "StandardDeviation">>, <<OP_FREQUENCY, "Frequency">>,
     <<OP_MEDIAN, "Median">>}

\* the strategy an operation name resolves to, None when it resolves to none
Resolved(operation) ==
    IF \E r \in RecognizedOperations : r[1] = ToLower(operation)
    THEN (CHOOSE r \in RecognizedOperations : r[1] = ToLower(operation))[2]
    ELSE None

TypeSet == Range(MeasurementTypes)

\* the strategies the operations list asks for
RequestedStrategies ==
    {Resolved(operations[i]) : i \in 1..Len(operations)} \ {None}

\* the values of all files of a type, in file order and then line order
Concatenation(type) ==
    Flatten([i \in 1..Len(result[type]) |-> get_values(result[type][i])])

\* the report files one (type, operation) pair is to write, in order
PairWrites(type, operation) ==
    IF result[type] = <<>> \/ Resolved(operation) = None THEN <<>>
    ELSE <<FileReportPath(type, Resolved(operation))>>
         \o (IF use_global /\ Concatenation(type) # <<>>
             THEN <<GlobalReportPath(type, Resolved(operation))>>
             ELSE <<>>)

\* the report files a call without failure writes, in type-then-operation order
PlannedWrites ==
    Flatten([k \in 1..(Len(MeasurementTypes) * Len(operations)) |->
                PairWrites(MeasurementTypes[((k - 1) \div Len(operations)) + 1],
                           operations[((k - 1) % Len(operations)) + 1])])

WrittenPaths == [i \in 1..Len(writes) |-> writes[i].path]

IsPrefix(a, b) == Len(a) <= Len(b) /\ SubSeq(b, 1, Len(a)) = a

\* the text of the last write of the current call to a path
LastWritten(path) ==
    writes[CHOOSE i \in 1..Len(writes) :
              /\ writes[i].path = path
              /\ \A j \in (i + 1)..Len(writes) : writes[j].path # path].text

Failed == pc = "done" /\ message.kind = "error"
Succeeded == pc = "done" /\ message.kind = "success"

(***************************************************************************)
(* C1.  A failing calculate or write step does not escape the call: the    *)
(* call returns status "Error" with a message that embeds the exception;   *)
(* only the last report opened can be the failing one, the reports opened  *)
(* are a prefix of the reports the run was to write in type-then-operation *)
(* order, and every report on disk holds what was last written to it.      *)
(***************************************************************************)
C1_FailureAbortsRun ==
    Failed =>
        /\ status = "Error"
        /\ IsError(message.description)
        /\ IsPrefix(WrittenPaths, PlannedWrites)
        /\ \A i \in 1..(Len(writes) - 1) : writes[i].raised = NoError
        /\ DOMAIN disk = Range(WrittenPaths)
        /\ \A path \in DOMAIN disk : disk[path] = LastWritten(path)

\* a failure after two reports were opened and before the last planned one
C1_Witness ==
    /\ Failed
    /\ Len(writes) >= 2
    /\ Len(writes) < Len(PlannedWrites)

IsFileReport(path) == EndsWith(path[2], DEGERLER_TXT)
IsGlobalReport(path) == StartsAt(path[2], GLOBAL_, 1)

\* the measurement types whose file list is not empty
TypesWithFiles == {type \in TypeSet : result[type] # <<>>}

(***************************************************************************)
(* C2.  A call that ends without failure has status "Success", and the     *)
(* per-file reports it wrote are exactly the reports                       *)
(* <strategy-name>degerler.txt of the types with a non-empty file list and *)
(* of the operation names that resolve to a strategy; an unrecognized name *)
(* adds no report, and with every file list empty nothing is written.      *)
(***************************************************************************)
C2_ReportsOfSuccessfulRun ==
    /\ pc = "done" => Succeeded \/ Failed
    /\ Succeeded =>
        /\ status = "Success"
        /\ {path \in Range(WrittenPaths) : IsFileReport(path)}
             = {FileReportPath(type, s) : type \in TypesWithFiles, s \in RequestedStrategies}
        /\ TypesWithFiles = {} => writes = <<>>

\* a successful call on both types, with an unrecognized name before a recognized one
C2_Witness ==
    /\ Succeeded
    /\ TypesWithFiles = TypeSet
    /\ Len(operations) = 2
    /\ Resolved(operations[1]) = None
    /\ Resolved(operations[2]) # None
    /\ Len(writes) >= 2

\* the files of a type that hold at least one value, in file order
FilesWithValues(type) == SelectSeq(result[type], LAMBDA f : get_values(f) # <<>>)

\* one entry per file with values, in file order, each with the result of the
\* strategy on the values of that file
ExpectedFileReport(type, s) ==
    LET files == FilesWithValues(type)
    IN  Flatten([i \in 1..Len(files) |->
                    FileEntryText(type, s, files[i], Calculate(s, get_values(files[i]))).text])

(***************************************************************************)
(* C3.  Every per-file report that was written to its end holds exactly    *)
(* one entry for each file of the type that has values, in the order of    *)
(* the file list, each with the result of the report's strategy on the     *)
(* values of that file; a file without values has no entry.                *)
(***************************************************************************)
C3_PerFileEntries ==
    pc = "done" =>
        \A i \in 1..Len(writes) : \A type \in TypeSet, s \in Strategies :
            /\ writes[i].path = FileReportPath(type, s)
            /\ writes[i].raised = NoError
            => writes[i].text = ExpectedFileReport(type, s)

\* a report was written for a type with a file without values before one with values
C3_Witness ==
    /\ Succeeded
    /\ Len(result["temperature"]) = 2
    /\ get_values(result["temperature"][1]) = <<>>
    /\ get_values(result["temperature"][2]) # <<>>
    /\ Len(writes) >= 1
    /\ writes[1].text # <<>>

\* the pair (type, s) whose per-file report is log entry i reached its global step
\* and that step is to write: the flag is set and the type has values
GlobalDue(type) == use_global /\ Concatenation(type) # <<>>

(***************************************************************************)
(* C4.  A global report global<strategy-name>.txt is written only with     *)
(* use_global set, right after the per-file report of the same type and    *)
(* strategy, and only when the values of all files of the type together    *)
(* are not empty; it then holds the result of the strategy on those values *)
(* in file order and line order.  Conversely a per-file report written to  *)
(* its end is followed by its global report whenever that is due, unless   *)
(* the call failed right there.                                            *)
(***************************************************************************)
C4_GlobalReport ==
    pc = "done" =>
        \A i \in 1..Len(writes) : \A type \in TypeSet, s \in Strategies :
            /\ writes[i].path = GlobalReportPath(type, s) =>
                /\ GlobalDue(type)
                /\ i > 1
                /\ writes[i - 1].path = FileReportPath(type, s)
                /\ writes[i].raised = NoError =>
                      writes[i].text
                        = GlobalText(type, s, Calculate(s, Concatenation(type))).text
            /\ (writes[i].path = FileReportPath(type, s) /\ writes[i].raised = NoError) =>
                IF GlobalDue(type)
                THEN IF i < Len(writes)
                     THEN writes[i + 1].path = GlobalReportPath(type, s)
                     ELSE Failed
                ELSE i < Len(writes) => ~IsGlobalReport(writes[i + 1].path)

\* the global report of a type with two files with values was written to its end
C4_Witness ==
    /\ Succeeded
    /\ use_global
    /\ Len(FilesWithValues("temperature")) = 2
    /\ Len(writes) >= 2
    /\ IsGlobalReport(writes[2].path)
    /\ writes[2].text # <<>>

\* the operating system refused no write of the first call or of the current one
NoRefusedWrite ==
    /\ message # ErrorMessage(OSError)
    /\ first_call.message # ErrorMessage(OSError)

(***************************************************************************)
(* C5.  A further call with the same files, the same operations list and   *)
(* use_global set leaves the report files as the first call left them: the *)
(* same files with the same text (the operating system refusing no write   *)
(* of either call).                                                        *)
(***************************************************************************)
C5_SecondRunIdentical ==
    (pc = "done" /\ run >= 2 /\ use_global /\ NoRefusedWrite) => disk = first_call.disk

\* a second call ended and left at least two report files
C5_Witness ==
    /\ pc = "done"
    /\ run = 2
    /\ use_global
    /\ NoRefusedWrite
    /\ Cardinality(DOMAIN disk) >= 2
    /\ \E path \in DOMAIN disk : disk[path] # <<>>

\* the .txt entries of the subdirectory of a type, in listing order
TxtEntries(type) ==
    SelectSeq(Listing(dirs[type]), LAMBDA entry : EndsWith(entry.name, TXT_EXT))

\* a line that read_file takes for a measurement: not blank, with the separator
IsDataLine(line) == Strip(line) # <<>> /\ Contains(Strip(line), COMMA)

\* a data line from which no Measurement can be made: it does not split into
\* exactly a time and a value, or the value is not a number
Unparseable(line) ==
    /\ IsDataLine(line)
    /\ \/ Len(Split(Strip(line), COMMA)) # 2
       \/ IsError(FloatOf(Strip(Split(Strip(line), COMMA)[2])))

\* the Measurement of a parseable data line
MeasurementOf(line) ==
    Measurement(Strip(Split(Strip(line), COMMA)[1]), Strip(Split(Strip(line), COMMA)[2]))

\* the lines after the header
DataLines(entry) == IF entry.lines = <<>> THEN <<>> ELSE Tail(entry.lines)

\* the index of the first line after the header that fails, or one past the last line
FirstFailure(entry) ==
    LET lines == DataLines(entry)
        failing == {i \in 1..Len(lines) : Unparseable(lines[i])}
    IN  IF failing = {} THEN Len(lines) + 1
        ELSE CHOOSE i \in failing : \A j \in failing : i <= j

\* the measurements of the parseable data lines among the first n lines after the header
MeasurementsUpTo(entry, n) ==
    LET lines == DataLines(entry)
        kept == SelectSeq([i \in 1..n |-> i],
                          LAMBDA i : IsDataLine(lines[i]) /\ ~Unparseable(lines[i]))
    IN  [k \in 1..Len(kept) |-> MeasurementOf(lines[kept[k]])]

\* the file object of an entry whose reading stopped at its first failure
ReadBeforeFailure(entry) ==
    IF ~entry.readable \/ entry.lines = <<>> THEN MeasurementFile(entry.name)
    ELSE [file_path |-> entry.name,
          metadata |-> parse_metadata(Head(entry.lines)),
          measurements |-> MeasurementsUpTo(entry, FirstFailure(entry) - 1)]

\* os.listdir fails for no subdirectory
DirectoriesListable == \A type \in TypeSet : dirs[type].present => dirs[type].listable

(***************************************************************************)
(* C6.  A file whose reading fails does not end the scan: scan_directory   *)
(* records no exception, and the list of each type holds one file object   *)
(* for every .txt entry of its subdirectory, in listing order, the object  *)
(* of a failing file holding the measurements parsed before the failure    *)
(* (the subdirectories themselves being listable).                         *)
(***************************************************************************)
C6_FileFailureContained ==
    (pc # "scan" /\ DirectoriesListable) =>
        /\ scan_error = NoError
        /\ \A type \in TypeSet :
              result[type] = [i \in 1..Len(TxtEntries(type)) |->
                                 ReadBeforeFailure(TxtEntries(type)[i])]

\* a file failing after its first measurement came before another file, and the
\* only file of the other subdirectory could not be opened
C6_Witness ==
    /\ pc = "scanned"
    /\ dirs.temperature.entries = <<"h", "a">>
    /\ dirs.humidity.entries = <<"e">>
    /\ Len(result.temperature) = 2
    /\ Len(result.temperature[1].measurements) = 1
    /\ Len(result.temperature[2].measurements) = 2
    /\ Len(result.humidity) = 1

(***************************************************************************)
(* C7.  The measurements of a non-empty file are, in line order, exactly   *)
(* its parseable data lines: a blank line, a line without separator and an *)
(* unparseable line are each skipped on their own, and none of them keeps  *)
(* a later line of the file from being parsed.                             *)
(***************************************************************************)
C7_EveryParseableLineRead ==
    pc # "scan" =>
        \A type \in TypeSet : \A i \in 1..Len(result[type]) :
            LET entry == TxtEntries(type)[i]
            IN  (entry.readable /\ entry.lines # <<>>) =>
                    result[type][i].measurements
                      = MeasurementsUpTo(entry, Len(DataLines(entry)))

\* a scalar result that is mathematically a whole number
IsWhole(x) == x.kind = "rat" /\ x.d = 1

\* the text after the first occurrence of mark
After(text, mark) == SubSeq(text, Find(text, mark) + Len(mark), Len(text))

\* digits, with a point followed by exactly two digits
HasTwoDecimals(value) ==
    /\ Contains(value, <<".">>)
    /\ Len(After(value, <<".">>)) = 2
    /\ IsDigits(After(value, <<".">>))

(***************************************************************************)
(* C8.  The formatted result of a scalar strategy is `<label>: <value>`,   *)
(* the value without fractional part when the result is a whole number and *)
(* with exactly two decimal digits otherwise.                              *)
(***************************************************************************)
C8_WholeWithoutFraction ==
    pc = "done" =>
        \A i \in 1..Len(writes) : \A type \in TypeSet, s \in ScalarStrategies :
            (writes[i].path = GlobalReportPath(type, s) /\ writes[i].raised = NoError) =>
                LET mark == Label(s) \o <<":", " ">>
                    value == After(writes[i].text, mark)
                IN  /\ StartsAt(writes[i].text, mark, 1)
                    /\ IF IsWhole(Calculate(s, Concatenation(type)))
                       THEN ~Contains(value, <<".">>)
                       ELSE HasTwoDecimals(value)

\* a metadata field as the report shows it
Field(metadata, key) == DictGet(metadata, key, UNKNOWN)

\* the metadata line with a blank after each of the four labels but the first
MetadataLineWritten(metadata) ==
    <<"i", "d", ":">> \o Field(metadata, "id")
    \o <<" ", "ö", "l", "ç", "ü", "m", ":", " ">> \o Field(metadata, "type")
    \o <<" ", "-", " ", "y", "e", "r", ":", " ">> \o Field(metadata, "location")
    \o <<" ", "-", " ", "t", "a", "r", "i", "h", ":", " ">> \o Field(metadata, "date")

\* the metadata line `id:<id> ölçüm: <type> - yer:<location> - tarih:<date>`
MetadataLineStated(metadata) ==
    <<"i", "d", ":">> \o Field(metadata, "id")
    \o <<" ", "ö", "l", "ç", "ü", "m", ":", " ">> \o Field(metadata, "type")
    \o <<" ", "-", " ", "y", "e", "r", ":">> \o Field(metadata, "location")
    \o <<" ", "-", " ", "t", "a", "r", "i", "h", ":">> \o Field(metadata, "date")

\* the four fields of a metadata mapping, absent ones as "unknown"
Fields(metadata) == [key \in {"id", "type", "location", "date"} |-> Field(metadata, key)]

\* every line of a scalar per-file report written to its end is the metadata
\* line of its file, " , " and the formatted result, and read back it yields
\* the fields of the file's metadata and the formatted result
ScalarLinesAre(MetadataLine(_)) ==
    pc = "done" =>
        \A i \in 1..Len(writes) : \A type \in TypeSet, s \in ScalarStrategies :
            (writes[i].path = FileReportPath(type, s) /\ writes[i].raised = NoError) =>
                LET files == FilesWithValues(type)
                    lines == Split(writes[i].text, NEWLINE)
                IN  /\ Len(lines) = Len(files) + 1
                    /\ lines[Len(lines)] = <<>>
                    /\ \A k \in 1..Len(files) :
                          LET formatted ==
                                  format_result(s, Calculate(s, get_values(files[k]))).text
                              halves == Split(lines[k], RESULT_SEP)
                          IN  /\ lines[k] = MetadataLine(files[k].metadata)
                                             \o <<" ", ",", " ">> \o formatted
                              /\ Len(halves) = 2
                              /\ Fields(parse_metadata(halves[1])) = Fields(files[k].metadata)
                              /\ halves[2] = formatted

(***************************************************************************)
(* C9.  Every line that write_file_result writes for a scalar result is    *)
(* `<metadata line> , <format_result(result)>`, the metadata line being    *)
(* `id:<id> ölçüm: <type> - yer: <location> - tarih: <date>` with a blank  *)
(* after `yer:` and after `tarih:`, each field from the metadata of the    *)
(* file and "unknown" when absent; the line read back yields the metadata  *)
(* of the file and the formatted result.                                   *)
(***************************************************************************)
C9_ScalarLine == ScalarLinesAre(MetadataLineWritten)

\* C9 as stated, with `yer:<location>` and `tarih:<date>` without the blank
C9_AsStated == ScalarLinesAre(MetadataLineStated)

\* a scalar report with a line of full metadata and a line with absent fields
C9_Witness ==
    /\ Succeeded
    /\ dirs.temperature.entries = <<"a", "b">>
    /\ Len(writes) >= 1
    /\ writes[1].path = FileReportPath("temperature", "Maximum")
    /\ Len(Split(writes[1].text, NEWLINE)) = 3

\* the text of a report line after " , "
ResultOfLine(line) == After(line, RESULT_SEP)

AVG_15_00 == <<"a", "v", "g", ":", " ", "1", "5", ".", "0", "0">>

ZeroOnEmpty == {"Average", "Maximum", "Minimum", "Median"}

(***************************************************************************)
(* C11.  No strategy fails on degenerate input: calculate of an empty      *)
(* sequence returns 0 for Average, Maximum, Minimum and Median and an      *)
(* empty mapping for Frequency, and StandardDeviation returns 0 for every  *)
(* sequence of fewer than two values, whatever the one value is.           *)
(***************************************************************************)
C11_DegenerateInput ==
    pc = "returned" =>
        /\ (call_values = <<>> /\ call_strategy \in ZeroOnEmpty) =>
              call_result = Rat(0, 1)
        /\ (call_values = <<>> /\ call_strategy = "Frequency") =>
              /\ call_result.kind = "dict"
              /\ DOMAIN call_result.counts = {}
        /\ (Len(call_values) < 2 /\ call_strategy = "StandardDeviation") =>
              call_result = Rat(0, 1)

\* the standard deviation of one value, an infinite one, was asked for and is 0
C11_Witness ==
    /\ pc = "returned"
    /\ call_strategy = "StandardDeviation"
    /\ call_values = <<Inf>>
    /\ call_result = Rat(0, 1)

\* the last n calls of the calculation context
LastCalls(n) == SubSeq(context_calls, Len(context_calls) - n + 1, Len(context_calls))

\* the global report of (type, s) is the last report opened, and no calculation
\* was asked for since its result was handed to the writer
GlobalJustHanded(type, s) ==
    /\ writes # <<>>
    /\ writes[Len(writes)].path = GlobalReportPath(type, s)
    /\ \/ pc \in {"op", "type"}
       \/ Succeeded
       \/ writes[Len(writes)].raised # NoError

(***************************************************************************)
(* C12.  Every call that process_calculations makes to the calculation     *)
(* context happens with the strategy of the current operation bound and    *)
(* with a non-empty sequence of values.  So no result handed to the writer *)
(* is the None of a context without strategy, every result handed over was *)
(* calculated from values (never the default of an empty input), and the   *)
(* strategy that calculated it is the one that names and formats the       *)
(* report.                                                                 *)
(***************************************************************************)
C12_ContextCalls ==
    /\ \A i \in 1..Len(context_calls) :
          /\ context_calls[i].bound # None
          /\ context_calls[i].bound = Resolved(context_calls[i].operation)
          /\ context_calls[i].values # <<>>
          /\ context_calls[i].result # NoResult
    /\ pc = "write" =>
          /\ Len(file_results) <= Len(context_calls)
          /\ \A k \in 1..Len(file_results) :
                LET call == LastCalls(Len(file_results))[k]
                IN  /\ file_results[k][2] = call.result
                    /\ file_results[k][2] # NoResult
                    /\ call.values = get_values(file_results[k][1])
                    /\ call.values # <<>>
                    /\ call.bound = strategy
    /\ \A type \in TypeSet, s \in Strategies :
          GlobalJustHanded(type, s) =>
              LET call == context_calls[Len(context_calls)]
                  last == writes[Len(writes)]
              IN  /\ context_calls # <<>>
                  /\ call.bound = s
                  /\ call.values = Concatenation(type)
                  /\ call.values # <<>>
                  /\ call.result # NoResult
                  /\ last.raised = NoError =>
                        last.text = GlobalText(type, s, call.result).text

\* a successful call with two different strategies, one after the other, each
\* asked for the per-file results of two files and for the global result
C12_Witness ==
    /\ Succeeded
    /\ use_global
    /\ Len(operations) = 2
    /\ Resolved(operations[1]) # None
    /\ Resolved(operations[2]) # None
    /\ Resolved(operations[1]) # Resolved(operations[2])
    /\ Len(FilesWithValues("temperature")) = 2
    /\ Len(context_calls) >= 6
    /\ context_calls[1].bound # context_calls[Len(context_calls)].bound

=============================================================================
